---------------------------- MODULE Spec2Model ----------------------------
(***************************************************************************)
(* A model of src/image_processing.py: the sentence splitter, the two      *)
(* frame transformers, the greedy word wrap of the text layout, the image  *)
(* and the video pipeline and the dispatcher that chooses between them.    *)
(*                                                                         *)
(* Text is a sequence of one-character strings.  Durations are exact       *)
(* rationals, records [n |-> numerator, d |-> denominator]; Python's       *)
(* floats are read as the rationals they approximate.  Files and fonts are  *)
(* taken to load: a failure to read one ends the run before any of the     *)
(* steps below.                                                            *)
(***************************************************************************)
EXTENDS Integers, Sequences, FiniteSets, TLC

VARIABLES
    pc,               \* position of the run
    input_path,       \* dispatcher: the path handed in
    method,           \* 'zoom' or 'stretch'
    text,             \* the caption text
    total_duration,   \* requested duration, seconds
    source,           \* the decoded source: [size, duration]
    glyph,            \* font metrics: [adv: advance of each character, height, kern]
    frame_width,      \* text layout: width of the frame drawn on
    sentences,        \* result of split_sentences
    sentence_duration,\* rational, per caption unit
    trimmed_clip_duration, \* video pipeline: min(requested, source duration)
    resized,          \* result of a frame transformer
    lines,            \* result of the greedy wrap
    heap,             \* image objects: reference -> sequence of drawn lines
    image,            \* reference of the pipeline's base frame
    clips,            \* clips appended so far
    subclips,         \* video pipeline: the <<start, end>> of each subclip taken
    events,           \* calls made to the collaborators, in order
    outcome           \* "running", "returned" or the exception raised

vars == <<pc, input_path, method, text, total_duration, source, glyph,
          frame_width, sentences, sentence_duration, trimmed_clip_duration,
          resized, lines, heap, image, clips, subclips, events, outcome>>

----------------------------------------------------------------------------
(* Bounds of the model.                                                     *)

MaxTextLen == 5
MaxWrapLen == 6
MaxSmallDim == 6
MaxDuration == 15
MaxSourceDuration == 3
MaxFrameWidth == 8

----------------------------------------------------------------------------
(* Characters and strings.                                                  *)

\* str.isspace / the regex class \s
Whitespace == {" ", "\t"}

\* a variant of the character class that leaves the comma out
DelimitersWithoutComma == {".", "!", "?"}

\* the character class [.!?,] of the split pattern
Delimiters == {".", "!", "?", ","}

RECURSIVE LStrip(_)
\* str.lstrip(): drop leading whitespace
LStrip(s) ==
    IF s = <<>> THEN <<>>
    ELSE IF Head(s) \in Whitespace THEN LStrip(Tail(s)) ELSE s

RECURSIVE RStrip(_)
\* str.rstrip(): drop trailing whitespace
RStrip(s) ==
    IF s = <<>> THEN <<>>
    ELSE IF s[Len(s)] \in Whitespace THEN RStrip(SubSeq(s, 1, Len(s) - 1)) ELSE s

\* str.strip()
Strip(s) == RStrip(LStrip(s))

RECURSIVE WhitespaceEnd(_, _)
\* greedy \s*: with p characters already consumed, the number consumed once
\* the whitespace run that starts there is taken whole
WhitespaceEnd(s, p) ==
    IF p < Len(s) /\ s[p + 1] \in Whitespace THEN WhitespaceEnd(s, p + 1) ELSE p

\* the lookbehind (?<=[.!?,]) at offset p (p characters precede it)
LookBehind(s, p) == p >= 1 /\ s[p] \in Delimiters

\* whether the pattern matches at offset p; an empty match is refused at the
\* offset where the previous empty match ended (must_advance)
MatchesAt(s, p, pos, must_advance) ==
    /\ LookBehind(s, p)
    /\ ~(must_advance /\ p = pos /\ WhitespaceEnd(s, p) = p)

RECURSIVE Search(_, _, _, _)
\* leftmost match at or after offset p, as <<start, end>>; <<>> when none
Search(s, p, pos, must_advance) ==
    IF p > Len(s) THEN <<>>
    ELSE IF MatchesAt(s, p, pos, must_advance) THEN <<p, WhitespaceEnd(s, p)>>
    ELSE Search(s, p + 1, pos, must_advance)

RECURSIVE ReSplit(_, _, _)
\* re.split(pattern, s): the pieces between successive matches, from offset
\* last on
ReSplit(s, last, must_advance) ==
    LET m == Search(s, last, last, must_advance)
    IN  IF m = <<>> THEN <<SubSeq(s, last + 1, Len(s))>>
        ELSE <<SubSeq(s, last + 1, m[1])>> \o ReSplit(s, m[2], m[1] = m[2])

\* a variant of the comprehension without its filter
StripAll(pieces) == [k \in 1..Len(pieces) |-> Strip(pieces[k])]

RECURSIVE StripNonEmpty(_)
\* [sentence.strip() for sentence in sentences if sentence]
StripNonEmpty(pieces) ==
    IF pieces = <<>> THEN <<>>
    ELSE IF Head(pieces) = <<>> THEN StripNonEmpty(Tail(pieces))
    ELSE <<Strip(Head(pieces))>> \o StripNonEmpty(Tail(pieces))

\* split_sentences(text)
split_sentences(t) == StripNonEmpty(ReSplit(Strip(t), 0, FALSE))


RECURSIVE SplitWords(_)
\* str.split(): the maximal runs of non-whitespace characters, in order
SplitWords(s) ==
    LET t == LStrip(s)
        WordEnd[i \in 0..Len(t)] ==
            IF i < Len(t) /\ t[i + 1] \notin Whitespace THEN WordEnd[i + 1] ELSE i
    IN  IF t = <<>> THEN <<>>
        ELSE <<SubSeq(t, 1, WordEnd[0])>> \o SplitWords(SubSeq(t, WordEnd[0] + 1, Len(t)))

----------------------------------------------------------------------------
(* The frame transformers.  A size is <<width, height>>.                    *)

TargetWidth == 1080
TargetHeight == 1920
\* the target aspect ratio 9 / 16 handed in by both pipelines
AspectNum == 9
AspectDen == 16

target_resolution == <<TargetWidth, TargetHeight>>

\* int(x) of a non-negative quotient a / b
IntDiv(a, b) == a \div b

\* Image.resize(size, LANCZOS), the call out to the imaging library: it
\* resamples a frame of positive size to a positive size; what it does with a
\* zero dimension on either side is the library's affair, so both of its
\* outcomes are kept
ResizeOutcomes(from, to) ==
    IF from[1] > 0 /\ from[2] > 0 /\ to[1] > 0 /\ to[2] > 0
    THEN {"ok"}
    ELSE {"ok", "ValueError"}

Raised(e) ==
    [status |-> e, size |-> <<0, 0>>, new_width |-> 0, new_height |-> 0,
     x_offset |-> 0, y_offset |-> 0]

\* new_width, new_height of the letterbox fit
ZoomScaled(size, target) ==
    IF size[1] * AspectDen < AspectNum * size[2]
    THEN <<IntDiv(target[2] * size[1], size[2]), target[2]>>
    ELSE <<target[1], IntDiv(target[1] * size[2], size[1])>>

\* resize_to_aspect_ratio_with_zoom(image, 9 / 16, target): the set of its
\* possible results
resize_to_aspect_ratio_with_zoom(size, target) ==
    IF size[2] = 0 THEN {Raised("ZeroDivisionError")}
    ELSE LET new == ZoomScaled(size, target)
         IN  {IF o = "ok"
              THEN [status |-> "ok", size |-> target,
                    new_width |-> new[1], new_height |-> new[2],
                    x_offset |-> (target[1] - new[1]) \div 2,
                    y_offset |-> (target[2] - new[2]) \div 2]
              ELSE Raised(o) : o \in ResizeOutcomes(size, new)}

\* stretch_vertically_to_resolution(image, target): the set of its possible
\* results
stretch_vertically_to_resolution(size, target) ==
    {IF o = "ok"
     THEN [status |-> "ok", size |-> target,
           new_width |-> target[1], new_height |-> target[2],
           x_offset |-> 0, y_offset |-> 0]
     ELSE Raised(o) : o \in ResizeOutcomes(size, target)}

\* the choice both pipelines make on method
Transform(m, size) ==
    IF m = "zoom" THEN resize_to_aspect_ratio_with_zoom(size, target_resolution)
    ELSE stretch_vertically_to_resolution(size, target_resolution)

----------------------------------------------------------------------------
(* The text layout: greedy wrap and block height.  Font metrics g give the  *)
(* advance width of every character, the kerning of one pair and the        *)
(* height of a line of text.                                                *)

LineSpacing == 10
WrapPercent == 85

\* int(image.size[0] * 0.85)
max_width(w) == (w * WrapPercent) \div 100

RECURSIVE TextWidth(_, _)
\* bbox[2] - bbox[0] of draw.textbbox((0, 0), line, font): 0 for no text,
\* else the advances of the characters, less the font's kerning of "Wa"
TextWidth(line, g) ==
    IF line = <<>> THEN 0
    ELSE g.adv[Head(line)] + TextWidth(Tail(line), g)
         - (IF Len(line) >= 2 /\ Head(line) = "W" /\ line[2] = "a"
            THEN g.kern ELSE 0)

\* bbox[3] - bbox[1] of draw.textbbox((0, 0), line, font): 0 for no text
TextHeight(line, g) == IF line = <<>> THEN 0 ELSE g.height

\* test_line = f"{current_line} {word}".strip() if current_line else word
TestLine(current_line, word) ==
    IF current_line # <<>> THEN Strip(current_line \o <<" ">> \o word) ELSE word

\* a variant that measures the line as it stands, not the tentative line
FitsCurrentLine(current_line, word, g, maxw) ==
    TextWidth(current_line, g) <= maxw

\* line_width <= max_width, measured on the tentative line
Fits(current_line, word, g, maxw) ==
    TextWidth(TestLine(current_line, word), g) <= maxw

RECURSIVE WrapLoop(_, _, _, _, _)
\* for word in words: ...; yields <<lines, current_line>> at the loop's end
WrapLoop(ws, current_line, ls, g, maxw) ==
    IF ws = <<>> THEN <<ls, current_line>>
    ELSE IF Fits(current_line, Head(ws), g, maxw)
         THEN WrapLoop(Tail(ws), TestLine(current_line, Head(ws)), ls, g, maxw)
         ELSE WrapLoop(Tail(ws), Head(ws), Append(ls, current_line), g, maxw)

\* the lines of add_centered_text_with_outline, trailing flush included
WrapLines(t, g, w) ==
    LET r == WrapLoop(SplitWords(t), <<>>, <<>>, g, max_width(w))
    IN  IF r[2] # <<>> THEN Append(r[1], r[2]) ELSE r[1]

RECURSIVE SumHeights(_, _)
SumHeights(ls, g) ==
    IF ls = <<>> THEN 0 ELSE TextHeight(Head(ls), g) + SumHeights(Tail(ls), g)

\* total_height of the block
total_height(ls, g) == SumHeights(ls, g) + (Len(ls) - 1) * LineSpacing


----------------------------------------------------------------------------
(* The dispatcher: os.path.splitext(input_path)[1].lower()                  *)

\* os.sep
Separator == "/"

RECURSIVE RFind(_, _)
\* str.rfind(c): the 1-based place of the last c in s, 0 when there is none
RFind(s, c) ==
    IF s = <<>> THEN 0
    ELSE IF s[Len(s)] = c THEN Len(s) ELSE RFind(SubSeq(s, 1, Len(s) - 1), c)

\* os.path.splitext(p)[1]: from the last dot of the last component on, when a
\* character other than a dot precedes it in that component
SplitExt(p) ==
    LET sepIndex == RFind(p, Separator)
        dotIndex == RFind(p, ".")
    IN  IF dotIndex > sepIndex
           /\ \E k \in (sepIndex + 1)..(dotIndex - 1) : p[k] # "."
        THEN SubSeq(p, dotIndex, Len(p))
        ELSE <<>>

\* str.lower() on one character
LowerChar(c) ==
    CASE c = "A" -> "a"
      [] c = "B" -> "b"
      [] c = "E" -> "e"
      [] c = "F" -> "f"
      [] c = "G" -> "g"
      [] c = "I" -> "i"
      [] c = "J" -> "j"
      [] c = "K" -> "k"
      [] c = "M" -> "m"
      [] c = "N" -> "n"
      [] c = "O" -> "o"
      [] c = "P" -> "p"
      [] c = "T" -> "t"
      [] c = "V" -> "v"
      [] c = "W" -> "w"
      [] c = "X" -> "x"
      [] OTHER -> c

\* str.lower()
Lower(s) == [i \in 1..Len(s) |-> LowerChar(s[i])]

ImageExtensions ==
    {<<".", "j", "p", "g">>,
     <<".", "j", "p", "e", "g">>,
     <<".", "p", "n", "g">>,
     <<".", "b", "m", "p">>,
     <<".", "g", "i", "f">>}

VideoExtensions ==
    {<<".", "m", "p", "4">>,
     <<".", "m", "o", "v">>,
     <<".", "a", "v", "i">>,
     <<".", "m", "k", "v">>,
     <<".", "w", "m", "v">>}

\* a variant that compares the extension as written, without lower()
DispatchKeyCaseSensitive(p) == SplitExt(p)

\* the expression both tests of the dispatcher evaluate
DispatchKey(p) == Lower(SplitExt(p))

----------------------------------------------------------------------------
(* Durations: exact rationals n / d.                                        *)

Rat(n, d) == [n |-> n, d |-> d]
RatTimes(k, r) == [n |-> k * r.n, d |-> r.d]
RatMinus(a, b) == [n |-> a.n * b.d - b.n * a.d, d |-> a.d * b.d]

Min(a, b) == IF a <= b THEN a ELSE b

\* a variant with floor division, total // len(sentences)
SentenceDurationFloor(total, n) ==
    IF n > 0 THEN [n |-> total \div n, d |-> 1] ELSE [n |-> 0, d |-> 1]

\* total / len(sentences) if sentences else 0
SentenceDuration(total, n) == IF n > 0 THEN Rat(total, n) ELSE Rat(0, 1)

\* trimmed_clip_duration = min(total_duration, video_clip.duration)
TrimmedDuration(total, clip_duration) == Min(total, clip_duration)

FramesPerSecond == 24

\* the number of frames iter_frames(fps=24) yields for a subclip of duration
\* r: one at each multiple of 1/24 below r
FrameCount(r) == (FramesPerSecond * r.n + r.d - 1) \div r.d

----------------------------------------------------------------------------
(* Image objects.  The heap is a sequence; a reference is a place in it,    *)
(* and the content of an image is the sequence of text lines drawn on it.   *)

\* a variant that hands back the object itself, not a copy
CopyImageAlias(h, ref) == <<h, ref>>

\* image.copy(): <<heap with a new object, its reference>>
CopyImage(h, ref) == <<Append(h, h[ref]), Len(h) + 1>>

\* add_centered_text_with_outline(image, text, ...): draws each wrapped line
\* on the object handed in and returns that object
add_centered_text_with_outline(h, ref, t, g, w) ==
    [h EXCEPT ![ref] = @ \o WrapLines(t, g, w)]


----------------------------------------------------------------------------
(* Inputs.                                                                  *)

Characters ==
    {"a", "b", "A", "B", "C", "D", "W", ".", "!", "?", ",", " ", "\t",
     "H", "e", "l", "o", "w", "r", "d", "G", "y"}

\* all strings over alphabet of length at most n
Strings(alphabet, n) == UNION {[1..k -> alphabet] : k \in 0..n}

\* the segmentation example of the documentation: "A. B! C, D"
ExampleText == <<"A", ".", " ", "B", "!", " ", "C", ",", " ", "D">>

SplitAlphabet == {"A", " ", "\t", ".", ",", "!", "?"}
SplitTexts == Strings(SplitAlphabet, MaxTextLen) \cup {ExampleText}

\* source sizes: the small ones, and some around the target resolution
Dimensions == (0..MaxSmallDim) \cup {540, 1080, 1081, 1920, 1921, 3840}

WrapTexts == Strings({"a", "W", " "}, MaxWrapLen)
FrameWidths == 4..MaxFrameWidth
Fonts ==
    {[adv |-> [c \in Characters |->
                 IF c = "W" THEN wide ELSE IF c \in Whitespace THEN 1 ELSE narrow],
      height |-> 7, kern |-> k] : wide \in {3, 5}, narrow \in {1, 2}, k \in {0, 1}}

\* the font of the pipeline runs: every character 300 pixels wide
PipelineFont == [adv |-> [c \in Characters |-> 300], height |-> 60, kern |-> 0]

Paths ==
    {<<"a", ".", "j", "p", "g">>,
     <<"a", ".", "J", "P", "G">>,
     <<"a", ".", "J", "p", "e", "g">>,
     <<"a", ".", "p", "n", "g">>,
     <<"a", ".", "b", "m", "p">>,
     <<"a", ".", "G", "I", "F">>,
     <<"a", ".", "m", "p", "4">>,
     <<"a", ".", "M", "O", "V">>,
     <<"a", ".", "a", "v", "i">>,
     <<"a", ".", "M", "k", "v">>,
     <<"a", ".", "w", "m", "v">>,
     <<"a", ".", "t", "x", "t">>,
     <<"a">>,
     <<".", "m", "p", "4">>,
     <<"a", ".", "j", "p", "g", "/", "b">>,
     <<"a", ".", "m", "p", "4", ".", "t", "x", "t">>,
     <<"a", ".", "b", ".", "p", "n", "g">>,
     <<"j", "p", "g">>,
     <<"a", ".", "j", "p">>,
     <<"a", ".", "P", "N", "G">>,
     <<"a", ".", "A", "v", "I">>,
     <<"A", ".", "B", "M", "P">>,
     <<"x", ".", "W", "M", "V">>}

\* the end-to-end example of the documentation: "Hello world. Goodbye!"
HelloText ==
    <<"H", "e", "l", "l", "o", " ", "w", "o", "r", "l", "d", ".", " ",
      "G", "o", "o", "d", "b", "y", "e", "!">>

PipelineTexts ==
    {<<>>, <<" ">>, <<"a", "b", ".">>, HelloText,
     <<"a", ",", " ", "a", "b", " ", "b", "?", " ", "b">>,
     <<"a", "b", "a", "b", " ", "a", "b", ",", "a">>}

PipelineSources ==
    [size : {<<1920, 1080>>, <<1080, 1920>>, <<4000, 1>>},
     duration : 0..MaxSourceDuration]

NoResult == Raised("none")

----------------------------------------------------------------------------
(* The pipeline run: create_video_from_media_with_text and the pipeline it  *)
(* dispatches to.                                                           *)

Init ==
    /\ pc = "dispatch"
    /\ input_path \in Paths
    /\ method \in {"zoom", "stretch"}
    /\ text \in PipelineTexts
    /\ total_duration \in 1..MaxDuration
    /\ source \in PipelineSources
    /\ glyph = PipelineFont
    /\ frame_width = TargetWidth
    /\ sentences = <<>>
    /\ sentence_duration = Rat(0, 1)
    /\ trimmed_clip_duration = 0
    /\ resized = NoResult
    /\ lines = <<>>
    /\ heap = <<>>
    /\ image = 0
    /\ clips = <<>>
    /\ subclips = <<>>
    /\ events = <<>>
    /\ outcome = "running"

Inputs == <<input_path, method, text, total_duration, source, glyph, frame_width>>

\* create_video_from_media_with_text
Dispatch ==
    /\ pc = "dispatch"
    /\ IF DispatchKey(input_path) \in ImageExtensions
       THEN pc' = "image_open" /\ outcome' = outcome
       ELSE IF DispatchKey(input_path) \in VideoExtensions
            THEN pc' = "video_open" /\ outcome' = outcome
            ELSE pc' = "done" /\ outcome' = "Unsupported file format"
    /\ UNCHANGED <<Inputs, sentences, sentence_duration, trimmed_clip_duration,
                   resized, lines, heap, image, clips, subclips, events>>

\* create_video_from_image_with_text: open, convert and transform the image
ImageOpen ==
    /\ pc = "image_open"
    /\ events' = Append(events, "Image.open")
    /\ \E r \in Transform(method, source.size) :
          /\ resized' = r
          /\ IF r.status = "ok"
             THEN /\ heap' = Append(heap, <<>>)
                  /\ image' = Len(heap) + 1
                  /\ pc' = "image_split"
                  /\ outcome' = outcome
             ELSE /\ pc' = "done"
                  /\ outcome' = r.status
                  /\ UNCHANGED <<heap, image>>
    /\ UNCHANGED <<Inputs, sentences, sentence_duration, trimmed_clip_duration,
                   lines, clips, subclips>>

\* create_video_from_image_with_text: split the text, divide the duration
ImageSplit ==
    /\ pc = "image_split"
    /\ sentences' = split_sentences(text)
    /\ sentence_duration' = SentenceDuration(total_duration, Len(sentences'))
    /\ pc' = IF sentences' = <<>> THEN "image_concat" ELSE "image_loop"
    /\ UNCHANGED <<Inputs, trimmed_clip_duration, resized, lines, heap, image,
                   clips, subclips, events, outcome>>

\* one pass of the loop over sentences: copy, draw, snapshot, append
ImageRender ==
    /\ pc = "image_loop"
    /\ LET sentence == sentences[Len(clips) + 1]
           c == CopyImage(heap, image)
           h == add_centered_text_with_outline(c[1], c[2], sentence, glyph,
                                               resized.size[1])
       IN  /\ heap' = h
           /\ lines' = WrapLines(sentence, glyph, resized.size[1])
           /\ clips' = Append(clips, [frame |-> h[c[2]], frames |-> 1,
                                      duration |-> sentence_duration])
    /\ pc' = IF Len(clips') = Len(sentences) THEN "image_concat" ELSE "image_loop"
    /\ UNCHANGED <<Inputs, sentences, sentence_duration, trimmed_clip_duration,
                   resized, image, subclips, events, outcome>>

\* concatenate_videoclips(clips) and write_videofile, unconditionally;
\* concatenate_videoclips raises on an empty list
ImageConcat ==
    /\ pc = "image_concat"
    /\ IF clips = <<>>
       THEN /\ events' = Append(events, "concatenate_videoclips")
            /\ outcome' = "ValueError"
       ELSE /\ events' = events \o <<"concatenate_videoclips", "write_videofile">>
            /\ outcome' = "returned"
    /\ pc' = "done"
    /\ UNCHANGED <<Inputs, sentences, sentence_duration, trimmed_clip_duration,
                   resized, lines, heap, image, clips, subclips>>

\* create_video_from_video_with_text: open the clip, clamp the duration
VideoOpen ==
    /\ pc = "video_open"
    /\ events' = Append(events, "VideoFileClip")
    /\ trimmed_clip_duration' = TrimmedDuration(total_duration, source.duration)
    /\ pc' = "video_split"
    /\ UNCHANGED <<Inputs, sentences, sentence_duration, resized, lines, heap,
                   image, clips, subclips, outcome>>

\* create_video_from_video_with_text: split the text, divide the duration
VideoSplit ==
    /\ pc = "video_split"
    /\ sentences' = split_sentences(text)
    /\ sentence_duration' = SentenceDuration(trimmed_clip_duration, Len(sentences'))
    /\ pc' = IF sentences' = <<>> THEN "video_concat" ELSE "video_loop"
    /\ UNCHANGED <<Inputs, trimmed_clip_duration, resized, lines, heap, image,
                   clips, subclips, events, outcome>>

\* one pass of the loop over sentences: take the subclip, transform and
\* caption each of its frames, append the clip when it has frames.  The
\* frames of a source share its size and the caption, so they render alike:
\* the clip holds one rendered frame and their number
VideoRender ==
    /\ pc = "video_loop"
    /\ LET i == Len(subclips)
           sentence == sentences[i + 1]
           start_time == RatTimes(i, sentence_duration)
           end_time == RatTimes(i + 1, sentence_duration)
           n == FrameCount(RatMinus(end_time, start_time))
       IN  /\ subclips' = Append(subclips, <<start_time, end_time>>)
           /\ IF n = 0
              THEN /\ pc' = IF i + 1 = Len(sentences) THEN "video_concat"
                            ELSE "video_loop"
                   /\ UNCHANGED <<resized, lines, heap, clips, outcome>>
              ELSE \E r \in Transform(method, source.size) :
                      /\ resized' = r
                      /\ IF r.status = "ok"
                         THEN LET c == CopyImage(Append(heap, <<>>), Len(heap) + 1)
                                  h == add_centered_text_with_outline(
                                           c[1], c[2], sentence, glyph, r.size[1])
                              IN  /\ heap' = h
                                  /\ lines' = WrapLines(sentence, glyph, r.size[1])
                                  /\ clips' = Append(clips,
                                        [frame |-> h[c[2]], frames |-> n,
                                         duration |-> Rat(n, FramesPerSecond)])
                                  /\ pc' = IF i + 1 = Len(sentences)
                                           THEN "video_concat" ELSE "video_loop"
                                  /\ outcome' = outcome
                         ELSE /\ pc' = "done"
                              /\ outcome' = r.status
                              /\ UNCHANGED <<lines, heap, clips>>
    /\ UNCHANGED <<Inputs, sentences, sentence_duration, trimmed_clip_duration,
                   image, events>>

\* if clips: concatenate and write; else: print("No clips were created.")
VideoConcat ==
    /\ pc = "video_concat"
    /\ events' = IF clips # <<>>
                 THEN events \o <<"concatenate_videoclips", "write_videofile">>
                 ELSE Append(events, "print")
    /\ outcome' = "returned"
    /\ pc' = "done"
    /\ UNCHANGED <<Inputs, sentences, sentence_duration, trimmed_clip_duration,
                   resized, lines, heap, image, clips, subclips>>

Next ==
    \/ Dispatch
    \/ ImageOpen
    \/ ImageSplit
    \/ ImageRender
    \/ ImageConcat
    \/ VideoOpen
    \/ VideoSplit
    \/ VideoRender
    \/ VideoConcat

Spec == Init /\ [][Next]_vars


----------------------------------------------------------------------------
(* The components on their own: each is applied once to an input drawn      *)
(* from its bounded set.                                                    *)

\* the state of a run that calls one component only
Quiet ==
    /\ input_path = <<>>
    /\ total_duration = 0
    /\ sentence_duration = Rat(0, 1)
    /\ trimmed_clip_duration = 0
    /\ heap = <<>>
    /\ image = 0
    /\ clips = <<>>
    /\ subclips = <<>>
    /\ events = <<>>
    /\ outcome = "running"

QuietVars ==
    <<input_path, total_duration, sentence_duration, trimmed_clip_duration,
      heap, image, clips, subclips, events, outcome>>

InitSplit ==
    /\ pc = "split"
    /\ text \in SplitTexts
    /\ sentences = <<>>
    /\ method = "zoom"
    /\ source = [size |-> <<0, 0>>, duration |-> 0]
    /\ glyph = PipelineFont
    /\ frame_width = TargetWidth
    /\ resized = NoResult
    /\ lines = <<>>
    /\ Quiet

\* sentences = split_sentences(text)
SplitSentences ==
    /\ pc = "split"
    /\ sentences' = split_sentences(text)
    /\ pc' = "split_done"
    /\ UNCHANGED <<Inputs, resized, lines, QuietVars>>

SpecSplit == InitSplit /\ [][SplitSentences]_vars

InitTransform ==
    /\ pc = "transform"
    /\ method \in {"zoom", "stretch"}
    /\ source \in [size : Dimensions \X Dimensions, duration : {0}]
    /\ resized = NoResult
    /\ text = <<>>
    /\ sentences = <<>>
    /\ glyph = PipelineFont
    /\ frame_width = TargetWidth
    /\ lines = <<>>
    /\ Quiet

\* image = resize_to_aspect_ratio_with_zoom(image, 9 / 16) if method == 'zoom'
\* else stretch_vertically_to_resolution(image)
TransformFrame ==
    /\ pc = "transform"
    /\ resized' \in Transform(method, source.size)
    /\ pc' = "transform_done"
    /\ UNCHANGED <<Inputs, sentences, lines, QuietVars>>

SpecTransform == InitTransform /\ [][TransformFrame]_vars

InitWrap ==
    /\ pc = "wrap"
    /\ text \in WrapTexts
    /\ glyph \in Fonts
    /\ frame_width \in FrameWidths
    /\ lines = <<>>
    /\ method = "zoom"
    /\ source = [size |-> <<0, 0>>, duration |-> 0]
    /\ sentences = <<>>
    /\ resized = NoResult
    /\ Quiet

\* the wrap of add_centered_text_with_outline on a frame frame_width wide
WrapText ==
    /\ pc = "wrap"
    /\ lines' = WrapLines(text, glyph, frame_width)
    /\ pc' = "wrap_done"
    /\ UNCHANGED <<Inputs, sentences, resized, QuietVars>>

SpecWrap == InitWrap /\ [][WrapText]_vars

----------------------------------------------------------------------------
(* Vocabulary of the properties.                                            *)

RECURSIVE Concat(_)
\* the sequences of ss joined end to end
Concat(ss) == IF ss = <<>> THEN <<>> ELSE Head(ss) \o Concat(Tail(ss))

RECURSIVE DeletesOnlyWhitespace(_, _)
\* a is b with some whitespace characters deleted
DeletesOnlyWhitespace(a, b) ==
    IF b = <<>> THEN a = <<>>
    ELSE \/ a # <<>> /\ Head(a) = Head(b) /\ DeletesOnlyWhitespace(Tail(a), Tail(b))
         \/ Head(b) \in {" ", "\t"} /\ DeletesOnlyWhitespace(a, Tail(b))

IsDelimiter(c) == c \in {".", "!", "?", ","}
IsBlank(s) == \A k \in 1..Len(s) : s[k] \in {" ", "\t"}

\* the words drawn on a frame, line after line
WordsOf(ls) == Concat([k \in 1..Len(ls) |-> SplitWords(ls[k])])

\* the number of lines that carry text
TextLines(ls) == Cardinality({k \in 1..Len(ls) : ~IsBlank(ls[k])})

ImageRun == events # <<>> /\ events[1] = "Image.open"
VideoRun == events # <<>> /\ events[1] = "VideoFileClip"
Called(e) == \E k \in 1..Len(events) : events[k] = e

\* the extension of a path: what follows, dot included, the last dot of the
\* last component, when the component has a character other than a dot
\* before it
ExtensionOf(p) ==
    LET dots == {k \in 1..Len(p) :
                    /\ p[k] = "."
                    /\ \A j \in (k + 1)..Len(p) : p[j] \notin {".", "/"}
                    /\ \E j \in 1..(k - 1) :
                          /\ p[j] # "."
                          /\ \A m \in j..(k - 1) : p[m] # "/"}
    IN  IF dots = {} THEN <<>>
        ELSE SubSeq(p, CHOOSE k \in dots : TRUE, Len(p))

CasePairs ==
    {<<"A", "a">>, <<"B", "b">>, <<"E", "e">>, <<"F", "f">>,
     <<"G", "g">>, <<"I", "i">>, <<"J", "j">>, <<"K", "k">>,
     <<"M", "m">>, <<"N", "n">>, <<"O", "o">>, <<"P", "p">>,
     <<"T", "t">>, <<"V", "v">>, <<"W", "w">>, <<"X", "x">>}

SameIgnoringCase(a, b) ==
    /\ Len(a) = Len(b)
    /\ \A k \in 1..Len(a) :
          a[k] = b[k] \/ <<a[k], b[k]>> \in CasePairs \/ <<b[k], a[k]>> \in CasePairs

IsImagePath(p) ==
    \E e \in {<<".", "j", "p", "g">>, <<".", "j", "p", "e", "g">>,
              <<".", "p", "n", "g">>, <<".", "b", "m", "p">>,
              <<".", "g", "i", "f">>} : SameIgnoringCase(ExtensionOf(p), e)

IsVideoPath(p) ==
    \E e \in {<<".", "m", "p", "4">>, <<".", "m", "o", "v">>,
              <<".", "a", "v", "i">>, <<".", "m", "k", "v">>,
              <<".", "w", "m", "v">>} : SameIgnoringCase(ExtensionOf(p), e)

ImagePositions == {"image_open", "image_split", "image_loop", "image_concat"}
VideoPositions == {"video_open", "video_split", "video_loop", "video_concat"}

RatEq(a, b) == a.n * b.d = b.n * a.d
RatPlus(a, b) == [n |-> a.n * b.d + b.n * a.d, d |-> a.d * b.d]

RECURSIVE SumDurations(_)
SumDurations(ds) ==
    IF ds = <<>> THEN Rat(0, 1) ELSE RatPlus(Head(ds), SumDurations(Tail(ds)))
----------------------------------------------------------------------------
(* Properties.                                                              *)

\* C1: in both pipelines, when the loop over the caption units ends with no
\* clip, the run returns normally, having reported the condition and having
\* called neither concatenate_videoclips nor write_videofile.
C1_ZeroClipsAbsorbed ==
    [][(pc \in {"image_concat", "video_concat"} /\ clips = <<>>)
          => (/\ outcome' = "returned"
              /\ events' = Append(events, "print"))]_vars

\* C2: the dispatcher goes by the extension of the path alone, compared
\* without regard to case: an image extension runs the image pipeline only,
\* a video extension the video pipeline only, and any other path fails with
\* "Unsupported file format" before anything is opened, rendered or written.
C2_DispatchByExtension ==
    pc # "dispatch" =>
        /\ IsImagePath(input_path) =>
              /\ pc \in ImagePositions \cup {"done"}
              /\ outcome # "Unsupported file format"
              /\ ~Called("VideoFileClip")
              /\ pc = "done" => ImageRun
        /\ IsVideoPath(input_path) =>
              /\ pc \in VideoPositions \cup {"done"}
              /\ outcome # "Unsupported file format"
              /\ ~Called("Image.open")
              /\ pc = "done" => VideoRun
        /\ ~IsImagePath(input_path) /\ ~IsVideoPath(input_path) =>
              /\ pc = "done"
              /\ outcome = "Unsupported file format"
              /\ events = <<>>
              /\ heap = <<>>
              /\ clips = <<>>
              /\ subclips = <<>>

\* C2, its case: a path with an upper-case image extension was dispatched and
\* the image pipeline ran to its end.
C2_Witness ==
    /\ pc = "done"
    /\ input_path = <<"a", ".", "J", "P", "G">>
    /\ ImageRun
    /\ outcome = "returned"
    /\ Called("write_videofile")

\* C3: no unit split_sentences returns is empty or blank, and the units joined
\* in order are the text with whitespace deleted and nothing else changed.
C3_SplitKeepsText ==
    pc = "split_done" =>
        /\ \A k \in 1..Len(sentences) : ~IsBlank(sentences[k])
        /\ DeletesOnlyWhitespace(Concat(sentences), text)

\* C3, its case: a text with whitespace around its delimiters was split into
\* several units and the whitespace between them dropped.
C3_Witness ==
    /\ pc = "split_done"
    /\ Len(sentences) >= 2
    /\ Len(Concat(sentences)) < Len(text)
    /\ \E k \in 1..Len(text) : text[k] = "A"

\* C4: split_sentences cuts right after every delimiter: every unit but the
\* last ends with one, a unit holds a delimiter only as its last character,
\* no unit starts or ends with whitespace; "A. B! C, D" gives "A.", "B!",
\* "C,", "D" and the empty text gives no unit.
C4_SplitAfterDelimiters ==
    pc = "split_done" =>
        /\ \A k \in 1..(Len(sentences) - 1) :
              IsDelimiter(sentences[k][Len(sentences[k])])
        /\ \A k \in 1..Len(sentences) :
              /\ sentences[k] # <<>>
              /\ \A j \in 1..(Len(sentences[k]) - 1) : ~IsDelimiter(sentences[k][j])
              /\ sentences[k][1] \notin {" ", "\t"}
              /\ sentences[k][Len(sentences[k])] \notin {" ", "\t"}
        /\ text = ExampleText =>
              sentences = <<<<"A", ".">>, <<"B", "!">>, <<"C", ",">>, <<"D">>>>
        /\ text = <<>> => sentences = <<>>

\* C4, its case: the example text was split into its four units.
C4_Witness ==
    /\ pc = "split_done"
    /\ text = ExampleText
    /\ Len(sentences) = 4

\* C5: on a source of positive width and height both transformers return a
\* frame of exactly the target resolution, and the letterbox fit scales the
\* source to positive dimensions within the target, so it only pads.
C5_TransformReachesTarget ==
    (pc = "transform_done" /\ source.size[1] > 0 /\ source.size[2] > 0) =>
        /\ resized.status = "ok"
        /\ resized.size = <<1080, 1920>>
        /\ method = "zoom" =>
              /\ resized.new_width \in 1..1080
              /\ resized.new_height \in 1..1920
              /\ resized.x_offset >= 0
              /\ resized.y_offset >= 0

\* C6: on a source of width 0 or height 0 either transformer fails with
\* InvalidInput (an error that names the input as invalid): it returns no
\* frame and fails in no other way.
C6_ZeroAreaRejected ==
    (pc = "transform_done" /\ (source.size[1] = 0 \/ source.size[2] = 0)) =>
        resized.status \in {"InvalidInput", "ValueError"}

\* C7: no line of the wrap is wider than floor(0.85 * frame width), except a
\* line of exactly one word.
C7_LinesWithinBudget ==
    pc = "wrap_done" =>
        \A k \in 1..Len(lines) :
            Len(SplitWords(lines[k])) # 1 =>
                100 * TextWidth(lines[k], glyph) <= 85 * frame_width

\* C7, its case: the wrap broke the text into lines, one of several words
\* and one of a single word wider than the budget.
C7_Witness ==
    /\ pc = "wrap_done"
    /\ \E k \in 1..Len(lines) : Len(SplitWords(lines[k])) >= 2
    /\ \E k \in 1..Len(lines) :
          /\ Len(SplitWords(lines[k])) = 1
          /\ 100 * TextWidth(lines[k], glyph) > 85 * frame_width

\* C8: with N >= 1 units every unit gets E / N and the allocations sum to E,
\* where E is the requested duration in the image pipeline and the smaller
\* of it and the source's duration in the video pipeline; the subclips of
\* the video pipeline are [i * E / N, (i + 1) * E / N): in order, contiguous
\* and covering [0, E).
C8_EvenDurations ==
    LET N == Len(sentences)
        E == IF ImageRun THEN total_duration
             ELSE Min(total_duration, source.duration)
        share == [k \in 1..Len(subclips) |->
                     RatMinus(subclips[k][2], subclips[k][1])]
    IN  /\ ImageRun =>
              /\ \A k \in 1..Len(clips) : clips[k].duration.n * N = E * clips[k].duration.d
              /\ (N >= 1 /\ Len(clips) = N) =>
                    RatEq(SumDurations([k \in 1..N |-> clips[k].duration]), Rat(E, 1))
              /\ (text = HelloText /\ total_duration = 10) =>
                    \A k \in 1..Len(clips) : clips[k].duration.n = 5 * clips[k].duration.d
        /\ VideoRun =>
              /\ pc # "video_open" => trimmed_clip_duration = E
              /\ (source.duration = 3 /\ total_duration = 15 /\ pc # "video_open")
                    => trimmed_clip_duration = 3
              /\ \A k \in 1..Len(subclips) :
                    /\ subclips[k][1].n * N = (k - 1) * E * subclips[k][1].d
                    /\ subclips[k][2].n * N = k * E * subclips[k][2].d
                    /\ share[k].n * N = E * share[k].d
                    /\ k > 1 => RatEq(subclips[k][1], subclips[k - 1][2])
              /\ (N >= 1 /\ Len(subclips) = N) =>
                    /\ RatEq(subclips[N][2], Rat(E, 1))
                    /\ RatEq(SumDurations(share), Rat(E, 1))

\* C8, its case: both pipelines divided a duration among several units, the
\* video pipeline one clamped to a shorter source.
C8_Witness ==
    /\ pc = "done"
    /\ outcome = "returned"
    /\ Len(sentences) >= 2
    /\ \/ ImageRun /\ Len(clips) = Len(sentences) /\ text = HelloText
                   /\ total_duration = 10
       \/ VideoRun /\ Len(subclips) = Len(sentences)
                   /\ source.duration = 3 /\ total_duration = 15

\* C9: in the image pipeline the base frame stays the transformed source
\* whatever is rendered, and the frame of the k-th clip carries the words of
\* the k-th caption unit and no others.
C9_BaseFrameUntouched ==
    (ImageRun /\ image # 0) =>
        /\ heap[image] = <<>>
        /\ Len(clips) <= Len(sentences)
        /\ \A k \in 1..Len(clips) :
              WordsOf(clips[k].frame) = SplitWords(sentences[k])

\* C9, its case: the image pipeline rendered several units and wrote them.
C9_Witness ==
    /\ ImageRun
    /\ pc = "done"
    /\ outcome = "returned"
    /\ Len(clips) >= 2
    /\ Len(clips) = Len(sentences)

\* C10: the wrap of a text with at least one word emits no empty line, its
\* lines hold the words of the text in order, and the block height counts
\* the 10 pixel spacing only between lines that carry text.
C10_NoEmptyLine ==
    (pc = "wrap_done" /\ SplitWords(text) # <<>>) =>
        /\ \A k \in 1..Len(lines) : SplitWords(lines[k]) # <<>>
        /\ WordsOf(lines) = SplitWords(text)
        /\ total_height(lines, glyph)
              = SumHeights(lines, glyph) + 10 * (TextLines(lines) - 1)

============================================================================
